---- MODULE Spec2Model ----
(***************************************************************************)
(* Credit-card account, transaction processor and billing cycle of         *)
(* src/practice/walkthrough01.ts (classes CreditCard, CreditCardService,   *)
(* BillingService), as a state machine.                                    *)
(*                                                                         *)
(* Money is a JavaScript number in the source.  Here an amount is the      *)
(* exact value w + f/Scale, kept as the record [w, f] with 0 <= f < Scale, *)
(* so that the 1.5% interest, the 10% cash sub-limit and the 5% minimum    *)
(* payment are computed without rounding.  Time is the millisecond count   *)
(* of a Date.                                                              *)
(***************************************************************************)
EXTENDS Integers, Sequences, FiniteSets, TLC

VARIABLES
    owedBalance,   \* CreditCard.owedBalance
    cardStatus,    \* CreditCard.cardStatus
    expiryDate,    \* CreditCard.expiryDate
    cardNumber,    \* CreditCard.cardNumber
    cvv,           \* CreditCard.cvv
    transactions,  \* CreditCardService.transactions
    now,           \* the clock that `new Date()` reads
    error,         \* the message of the Error the last call threw, or NoError
    calls,         \* pay calls in progress, when several callers share the card
    serialized     \* whether those calls run one at a time

vars == <<owedBalance, cardStatus, expiryDate, cardNumber, cvv, transactions,
          now, error, calls, serialized>>

----------------------------------------------------------------------------
(* Bounds of the model *)

MaxLedger == 2      \* longest ledger explored
MaxTime == 2        \* last instant of the clock

(* Program constants *)

maxCreditLimitValue == 100000
cashWithdrawLimitPercentage == 10
minPaymentPercentage == 5
interestRateMonthlyNum == 3     \* interestRateMonthly = 1.5 = 3/2
interestRateMonthlyDen == 2
FifteenDays == 1296000000       \* 15 * 24 * 60 * 60 * 1000

----------------------------------------------------------------------------
(* Exact arithmetic on amounts *)

\* Every accrual of interest appends a record, so a balance has at most
\* 2 * MaxLedger more decimals than the amounts of the calls
Scale == 200 ^ MaxLedger

M(n) == [w |-> n, f |-> 0]

Plus(a, b) ==
    LET s == a.f + b.f
    IN  IF s >= Scale THEN [w |-> a.w + b.w + 1, f |-> s - Scale]
                      ELSE [w |-> a.w + b.w, f |-> s]

Minus(a, b) ==
    LET s == a.f - b.f
    IN  IF s < 0 THEN [w |-> a.w - b.w - 1, f |-> s + Scale]
                 ELSE [w |-> a.w - b.w, f |-> s]

Gt(a, b) == a.w > b.w \/ (a.w = b.w /\ a.f > b.f)

LeZero(a) == ~Gt(a, M(0))

\* a * p / q, rounded down to a multiple of 1/Scale
MulDiv(a, p, q) ==
    LET k == (a.w * p) \div q
        r == (a.w * p) % q
        n == (r * Scale + a.f * p) \div q
    IN  IF n >= Scale THEN [w |-> k + 1, f |-> n - Scale]
                      ELSE [w |-> k, f |-> n]

\* a * p / q is a multiple of 1/Scale
Exact(a, p, q) == (((a.w * p) % q) * Scale + a.f * p) % q = 0

\* a * n for a natural number n
Times(a, n) ==
    [w |-> a.w * n + (a.f * n) \div Scale, f |-> (a.f * n) % Scale]

MaxOf(a, b) == IF Gt(a, b) THEN a ELSE b

----------------------------------------------------------------------------
(* enum CardStatus, enum TransactionType, thrown messages *)

CardStatus == {"active", "inactive", "blocked", "deleted"}

TransactionType ==
    {"withdraw", "purchase", "payment", "transfer", "interest", "deposit"}

NoError == "none"

----------------------------------------------------------------------------
(* class CreditCard *)

maxCreditLimit == M(maxCreditLimitValue)

\* Faulty variant: an expiry equal to the current instant is accepted
validateCardDetailsLax(expiry, number, code, date) ==
    IF expiry < date THEN "Expiry date must be in the future."
    ELSE IF Len(number) = 0 \/ Len(number) # 16
    THEN "Card number must be 16 digits."
    ELSE IF Len(code) = 0 \/ Len(code) # 3 THEN "CVV must be 3 digits."
    ELSE NoError

\* validateCardDetails: `date` is the instant `new Date()` returns
validateCardDetails(expiry, number, code, date) ==
    IF expiry <= date THEN "Expiry date must be in the future."
    ELSE IF Len(number) = 0 \/ Len(number) # 16
    THEN "Card number must be 16 digits."
    ELSE IF Len(code) = 0 \/ Len(code) # 3 THEN "CVV must be 3 digits."
    ELSE NoError

\* new CreditCard(customer, expiryDate, cardNumber, cvv): the fields of the
\* object, and the message thrown when no object is returned
CreditCard(expiry, number, code, date) ==
    [error |-> validateCardDetails(expiry, number, code, date),
     expiryDate |-> expiry, cardNumber |-> number, cvv |-> code,
     owedBalance |-> M(0), cardStatus |-> "active"]

ConstructionErrors ==
    {"Expiry date must be in the future.", "Card number must be 16 digits.",
     "CVV must be 3 digits."}

\* Faulty variant: a balance above the credit limit is refused
CreditCard_setOwedBalanceCapped(balance, amount) ==
    IF LeZero(amount) \/ Gt(amount, M(maxCreditLimitValue))
    THEN [error |-> "Owed balance must be positive.", owedBalance |-> balance]
    ELSE [error |-> NoError, owedBalance |-> amount]

\* setOwedBalance: the new balance, or the message thrown
CreditCard_setOwedBalance(balance, amount) ==
    IF LeZero(amount)
    THEN [error |-> "Owed balance must be positive.", owedBalance |-> balance]
    ELSE [error |-> NoError, owedBalance |-> amount]

getAvailableCredit(balance) == Minus(maxCreditLimit, balance)

\* Faulty variant: a transition table under which DELETED is final
setCardStatusFinal(status, newStatus) ==
    IF status = "deleted" THEN status ELSE newStatus

\* setCardStatus: the status after the call
setCardStatus(status, newStatus) == newStatus

\* Faulty variant: the expiry instant itself still counts as valid
isActiveAndValidLax(status, date, expiry) ==
    status = "active" /\ date <= expiry

isActiveAndValid(status, date, expiry) ==
    status = "active" /\ date < expiry

\* Faulty variant: the percentage is taken of the whole limit, not of what is left
getCashWithdrawLimitOfMax(balance) ==
    MulDiv(maxCreditLimit, cashWithdrawLimitPercentage, 100)

getCashWithdrawLimit(balance) ==
    MulDiv(getAvailableCredit(balance), cashWithdrawLimitPercentage, 100)

----------------------------------------------------------------------------
(* class Transaction, class CreditCardService *)

Transaction(amount, date, type, description) ==
    [amount |-> amount, transactionDate |-> date,
     transactionType |-> type, description |-> description]

positiveAmount(amount) ==
    IF LeZero(amount) THEN "Amount must be positive." ELSE NoError

\* Faulty variant: a charge is compared with the whole limit, not with what is left
validateAmountAgainstMax(balance, amount, type) ==
    IF positiveAmount(amount) # NoError THEN positiveAmount(amount)
    ELSE IF /\ type \in {"withdraw", "purchase", "transfer"}
            /\ Gt(amount, maxCreditLimit)
         THEN "Insufficient available credit."
    ELSE IF type = "payment" /\ Gt(amount, maxCreditLimit)
         THEN "Payment exceeds max credit limit."
    ELSE NoError

validateAmount(balance, amount, type) ==
    IF positiveAmount(amount) # NoError THEN positiveAmount(amount)
    ELSE IF /\ type \in {"withdraw", "purchase", "transfer"}
            /\ Gt(amount, getAvailableCredit(balance))
         THEN "Insufficient available credit."
    ELSE IF type = "payment" /\ Gt(amount, maxCreditLimit)
         THEN "Payment exceeds max credit limit."
    ELSE NoError

Last(txs) == txs[Len(txs)]

\* Faulty variant: unshift instead of push
addTransactionFront(txs, amount, date, type, description) ==
    <<Transaction(amount, date, type, description)>> \o txs

addTransaction(txs, amount, date, type, description) ==
    Append(txs, Transaction(amount, date, type, description))

\* The outcome of a method on the pair (balance, ledger)
Outcome(err, balance, txs) ==
    [error |-> err, owedBalance |-> balance, transactions |-> txs]

\* Faulty variant: the record is pushed before the balance setter is called
applyRecordFirst(balance, txs, newBalance, amount, date, type, description) ==
    LET s == CreditCard_setOwedBalance(balance, newBalance)
    IN  Outcome(s.error, s.owedBalance,
                addTransaction(txs, amount, date, type, description))

\* The common tail of withdraw, purchase, payment, transfer and addInterest:
\* setOwedBalance(newBalance), then addTransaction(amount, new Date(), type)
apply(balance, txs, newBalance, amount, date, type, description) ==
    LET s == CreditCard_setOwedBalance(balance, newBalance)
    IN  IF s.error # NoError
        THEN Outcome(s.error, balance, txs)
        ELSE Outcome(NoError, s.owedBalance,
                     addTransaction(txs, amount, date, type, description))

withdraw(balance, txs, amount, date, description) ==
    IF Gt(amount, getCashWithdrawLimit(balance))
    THEN Outcome("Exceeds cash withdraw limit.", balance, txs)
    ELSE apply(balance, txs, Plus(balance, amount), amount, date,
               "withdraw", description)

\* Faulty variant: the balance is raised and no record is pushed
purchaseUnrecorded(balance, txs, amount, date, description) ==
    LET s == CreditCard_setOwedBalance(balance, Plus(balance, amount))
    IN  Outcome(s.error, s.owedBalance, txs)

purchase(balance, txs, amount, date, description) ==
    apply(balance, txs, Plus(balance, amount), amount, date,
          "purchase", description)

\* Faulty variant: a payment is added to the balance like a charge
paymentAdds(balance, txs, amount, date, description) ==
    apply(balance, txs, Plus(balance, amount), amount, date,
          "payment", description)

payment(balance, txs, amount, date, description) ==
    apply(balance, txs, Minus(balance, amount), amount, date,
          "payment", description)

transfer(balance, txs, amount, date, description) ==
    apply(balance, txs, Plus(balance, amount), amount, date,
          "transfer", description)

\* Faulty variant: the status and expiry are checked before the amount
payStatusFirst(balance, status, expiry, txs, amount, type, description, checked, date) ==
    IF ~isActiveAndValid(status, checked, expiry)
    THEN Outcome("Card is not active or has expired.", balance, txs)
    ELSE IF validateAmount(balance, amount, type) # NoError
    THEN Outcome(validateAmount(balance, amount, type), balance, txs)
    ELSE CASE type = "withdraw" -> withdraw(balance, txs, amount, date, description)
           [] type = "purchase" -> purchase(balance, txs, amount, date, description)
           [] type = "payment"  -> payment(balance, txs, amount, date, description)
           [] type = "transfer" -> transfer(balance, txs, amount, date, description)
           [] OTHER -> Outcome("Unsupported transaction type.", balance, txs)

\* pay: `checked` is the instant isActiveAndValid reads, `date` the instant
\* the record is stamped with
pay(balance, status, expiry, txs, amount, type, description, checked, date) ==
    IF validateAmount(balance, amount, type) # NoError
    THEN Outcome(validateAmount(balance, amount, type), balance, txs)
    ELSE IF ~isActiveAndValid(status, checked, expiry)
    THEN Outcome("Card is not active or has expired.", balance, txs)
    ELSE CASE type = "withdraw" -> withdraw(balance, txs, amount, date, description)
           [] type = "purchase" -> purchase(balance, txs, amount, date, description)
           [] type = "payment"  -> payment(balance, txs, amount, date, description)
           [] type = "transfer" -> transfer(balance, txs, amount, date, description)
           [] OTHER -> Outcome("Unsupported transaction type.", balance, txs)

\* Faulty variant: interest is refused once it would pass the credit limit
addInterestCapped(balance, txs, amount, date, description) ==
    IF positiveAmount(amount) # NoError
    THEN Outcome(positiveAmount(amount), balance, txs)
    ELSE IF Gt(Plus(balance, amount), maxCreditLimit)
    THEN Outcome("Insufficient available credit.", balance, txs)
    ELSE apply(balance, txs, Plus(balance, amount), amount, date,
               "interest", description)

addInterest(balance, txs, amount, date, description) ==
    IF positiveAmount(amount) # NoError
    THEN Outcome(positiveAmount(amount), balance, txs)
    ELSE apply(balance, txs, Plus(balance, amount), amount, date,
               "interest", description)

CreditCardService_setOwedBalance(balance, amount) ==
    IF positiveAmount(amount) # NoError
    THEN [error |-> positiveAmount(amount), owedBalance |-> balance]
    ELSE CreditCard_setOwedBalance(balance, amount)

getTransactionsByType(txs, type) ==
    SelectSeq(txs, LAMBDA t : t.transactionType = type)

\* reduce((total, t) => total + t.getAmount(), 0)
RECURSIVE reduceAmounts(_)
reduceAmounts(txs) ==
    IF txs = <<>> THEN M(0)
    ELSE Plus(reduceAmounts(SubSeq(txs, 1, Len(txs) - 1)), Last(txs).amount)

getTotalAmountByType(txs, type) ==
    reduceAmounts(getTransactionsByType(txs, type))

getTransactionsSince(txs, date) ==
    SelectSeq(txs, LAMBDA t : t.transactionDate > date)

----------------------------------------------------------------------------
(* class BillingService *)

interestOf(owed) ==
    MulDiv(owed, interestRateMonthlyNum, interestRateMonthlyDen * 100)

\* Faulty variant: interest already charged after dueDate is not charged again
applyInterestIfLateOnce(balance, txs, dueDate, checked, date) ==
    IF checked <= dueDate THEN Outcome(NoError, balance, txs)
    ELSE IF LeZero(balance) THEN Outcome(NoError, balance, txs)
    ELSE IF \E i \in 1 .. Len(txs) :
                /\ txs[i].description = "Monthly interest charge"
                /\ txs[i].transactionDate > dueDate
    THEN Outcome(NoError, balance, txs)
    ELSE addInterest(balance, txs, interestOf(balance), date,
                     "Monthly interest charge")

\* Faulty variant: interest accrues on the due instant itself
applyInterestIfLateEarly(balance, txs, dueDate, checked, date) ==
    IF checked < dueDate THEN Outcome(NoError, balance, txs)
    ELSE IF LeZero(balance) THEN Outcome(NoError, balance, txs)
    ELSE addInterest(balance, txs, interestOf(balance), date,
                     "Monthly interest charge")

\* applyInterestIfLate: `checked` is the instant compared with dueDate,
\* `date` the instant addInterest stamps the record with
applyInterestIfLate(balance, txs, dueDate, checked, date) ==
    IF checked <= dueDate THEN Outcome(NoError, balance, txs)
    ELSE IF LeZero(balance) THEN Outcome(NoError, balance, txs)
    ELSE addInterest(balance, txs, interestOf(balance), date,
                     "Monthly interest charge")

\* Faulty variant: a lastBillDate equal to the current instant is accepted
generateMonthlyBillSameInstant(balance, lastBillDate, checked, date) ==
    IF lastBillDate > checked
    THEN [error |-> "Last bill date must be in the past."]
    ELSE [error |-> NoError,
          totalDue |-> balance,
          minPayment |-> MaxOf(MulDiv(balance, minPaymentPercentage, 100), M(0)),
          dueDate |-> date + FifteenDays]

\* generateMonthlyBill: `checked` is the instant compared with lastBillDate,
\* `date` the instant `now` is bound to
generateMonthlyBill(balance, lastBillDate, checked, date) ==
    IF lastBillDate >= checked
    THEN [error |-> "Last bill date must be in the past."]
    ELSE [error |-> NoError,
          totalDue |-> balance,
          minPayment |-> MaxOf(MulDiv(balance, minPaymentPercentage, 100), M(0)),
          dueDate |-> date + FifteenDays]

payBill(balance, status, expiry, txs, amount, checked, date) ==
    pay(balance, status, expiry, txs, amount, "payment", "Bill payment",
        checked, date)

----------------------------------------------------------------------------
(* Inputs *)

\* pay and payBill: nothing, a small amount, the whole limit, above the limit
Amounts == {M(n) : n \in {0, 100, 100000, 150000}}

\* addInterest
InterestAmounts == {M(n) : n \in {0, 100}}

\* setOwedBalance
BalanceAmounts == {M(n) : n \in {0, 100000}}

Descriptions == {""}

ExpiryDates == {1}

\* Arguments of the constructor: the valid ones, an expiry that is not in
\* the future, a number of 15 characters, a cvv of 2
ConstructorExpiryDates == ExpiryDates \cup {0}

CardNumbers == {"1234567890123456", "123456789012345"}

Cvvs == {"123", "12"}

\* Callers that may share the card
Callers == {1, 2}

Idle == [pc |-> "idle", amount |-> M(0), type |-> "-", newBalance |-> M(0)]

Dates == 0 .. MaxTime

\* The clock does not go backwards; between two reads in one call it stays
\* or moves on by one instant
Later(t) == {u \in {t, t + 1} : u <= MaxTime}

----------------------------------------------------------------------------
(* State machine *)

\* new CreditCard(...), then new CreditCardService(card): when the
\* constructor throws there is no card, and no method is ever called
InitCard ==
    /\ now = 0
    /\ \E expiry \in ConstructorExpiryDates, number \in CardNumbers,
          code \in Cvvs :
           LET card == CreditCard(expiry, number, code, now)
           IN  /\ expiryDate = card.expiryDate
               /\ cardNumber = card.cardNumber
               /\ cvv = card.cvv
               /\ owedBalance = card.owedBalance
               /\ cardStatus = card.cardStatus
               /\ error = card.error
    /\ transactions = <<>>
    /\ calls = [p \in Callers |-> Idle]

Init ==
    /\ InitCard
    /\ serialized = TRUE

Constructed == error \notin ConstructionErrors

\* A method is called on a constructed card, by one caller at a time; the
\* identity fields have no setter
OnCard ==
    /\ Constructed
    /\ UNCHANGED <<cardNumber, cvv, calls, serialized>>

\* The outcome r of a processor method becomes the state; the clock has
\* moved to `date` when the method stamped a record
Commit(r, date) ==
    /\ Len(r.transactions) <= MaxLedger
    /\ owedBalance' = r.owedBalance
    /\ transactions' = r.transactions
    /\ error' = r.error
    /\ now' = IF r.transactions # transactions THEN date ELSE now

Pay ==
    /\ OnCard
    /\ \E amount \in Amounts, type \in TransactionType,
       description \in Descriptions, date \in Later(now) :
        /\ Commit(pay(owedBalance, cardStatus, expiryDate, transactions,
                      amount, type, description, now, date), date)
        /\ UNCHANGED <<cardStatus, expiryDate>>

AddInterest ==
    /\ OnCard
    /\ \E amount \in InterestAmounts, description \in Descriptions, date \in Later(now) :
        /\ Commit(addInterest(owedBalance, transactions, amount, date,
                              description), date)
        /\ UNCHANGED <<cardStatus, expiryDate>>

SetOwedBalance ==
    /\ OnCard
    /\ \E amount \in BalanceAmounts :
        LET r == CreditCardService_setOwedBalance(owedBalance, amount)
        IN  /\ owedBalance' = r.owedBalance
            /\ error' = r.error
            /\ UNCHANGED <<cardStatus, expiryDate, transactions, now>>

SetCardStatus ==
    /\ OnCard
    /\ \E status \in CardStatus :
        /\ cardStatus' = setCardStatus(cardStatus, status)
        /\ error' = NoError
        /\ UNCHANGED <<owedBalance, expiryDate, transactions, now>>

GenerateMonthlyBill ==
    /\ OnCard
    /\ \E lastBillDate \in Dates, date \in Later(now) :
        LET r == generateMonthlyBill(owedBalance, lastBillDate, now, date)
        IN  /\ error' = r.error
            /\ now' = IF r.error = NoError THEN date ELSE now
            /\ UNCHANGED <<owedBalance, cardStatus, expiryDate, transactions>>

ApplyInterestIfLate ==
    /\ OnCard
    /\ \E dueDate \in Dates, date \in Later(now) :
        /\ Commit(applyInterestIfLate(owedBalance, transactions, dueDate,
                                      now, date), date)
        /\ UNCHANGED <<cardStatus, expiryDate>>

PayBill ==
    /\ OnCard
    /\ \E amount \in Amounts, date \in Later(now) :
        /\ Commit(payBill(owedBalance, cardStatus, expiryDate, transactions,
                          amount, now, date), date)
        /\ UNCHANGED <<cardStatus, expiryDate>>

Tick ==
    /\ now < MaxTime
    /\ now' = now + 1
    /\ UNCHANGED <<owedBalance, cardStatus, expiryDate, cardNumber, cvv,
                   transactions, error, calls, serialized>>

Next ==
    \/ Pay
    \/ AddInterest
    \/ SetOwedBalance
    \/ SetCardStatus
    \/ GenerateMonthlyBill
    \/ ApplyInterestIfLate
    \/ PayBill
    \/ Tick

Spec == Init /\ [][Next]_vars

\* The processor used through pay alone: no addInterest, no setOwedBalance,
\* no billing cycle
NextPayOnly ==
    \/ Pay
    \/ Tick

SpecPayOnly == Init /\ [][NextPayOnly]_vars

\* Every method but setOwedBalance, which overwrites the balance
NextNoSetBalance ==
    \/ Pay
    \/ AddInterest
    \/ SetCardStatus
    \/ GenerateMonthlyBill
    \/ ApplyInterestIfLate
    \/ PayBill
    \/ Tick

SpecNoSetBalance == Init /\ [][NextNoSetBalance]_vars

\* pay run by several callers on one card, a step at a time: the limit
\* validation, the status check, the read of the balance, the write of the
\* balance and the push of the record. With `serialized` a call starts only
\* when no other call is in progress.
InProgress == {p \in Callers : calls[p].pc # "idle"}

Shared == UNCHANGED <<expiryDate, cardNumber, cvv, cardStatus, now, serialized>>

Begin ==
    /\ Constructed
    /\ \E p \in Callers, amount \in Amounts, type \in TransactionType :
        /\ calls[p].pc = "idle"
        /\ serialized => InProgress = {}
        /\ Len(transactions) + Cardinality(InProgress) < MaxLedger
        /\ calls' = [calls EXCEPT ![p] = [pc |-> "validate", amount |-> amount,
                                         type |-> type, newBalance |-> M(0)]]
    /\ Shared
    /\ UNCHANGED <<owedBalance, transactions, error>>

\* this.validateAmount(amount, type)
Validate ==
    /\ \E p \in Callers :
        /\ calls[p].pc = "validate"
        /\ LET e == validateAmount(owedBalance, calls[p].amount, calls[p].type)
           IN  IF e # NoError
               THEN /\ error' = e
                    /\ calls' = [calls EXCEPT ![p] = Idle]
               ELSE /\ error' = error
                    /\ calls' = [calls EXCEPT ![p].pc = "check"]
    /\ Shared
    /\ UNCHANGED <<owedBalance, transactions>>

\* if (!this.card.isActiveAndValid()) throw
CheckActive ==
    /\ \E p \in Callers :
        /\ calls[p].pc = "check"
        /\ IF ~isActiveAndValid(cardStatus, now, expiryDate)
           THEN /\ error' = "Card is not active or has expired."
                /\ calls' = [calls EXCEPT ![p] = Idle]
           ELSE /\ error' = error
                /\ calls' = [calls EXCEPT ![p].pc = "read"]
    /\ Shared
    /\ UNCHANGED <<owedBalance, transactions>>

\* the switch, and in the method it selects the read of getOwedBalance()
\* that computes newBalance
ReadBalance ==
    /\ \E p \in Callers :
        /\ calls[p].pc = "read"
        /\ LET amount == calls[p].amount
               type == calls[p].type
           IN  IF type \notin {"withdraw", "purchase", "payment", "transfer"}
               THEN /\ error' = "Unsupported transaction type."
                    /\ calls' = [calls EXCEPT ![p] = Idle]
               ELSE IF /\ type = "withdraw"
                       /\ Gt(amount, getCashWithdrawLimit(owedBalance))
               THEN /\ error' = "Exceeds cash withdraw limit."
                    /\ calls' = [calls EXCEPT ![p] = Idle]
               ELSE /\ error' = error
                    /\ calls' = [calls EXCEPT
                                  ![p].pc = "write",
                                  ![p].newBalance =
                                      IF type = "payment"
                                      THEN Minus(owedBalance, amount)
                                      ELSE Plus(owedBalance, amount)]
    /\ Shared
    /\ UNCHANGED <<owedBalance, transactions>>

\* this.card.setOwedBalance(newBalance)
WriteBalance ==
    /\ \E p \in Callers :
        /\ calls[p].pc = "write"
        /\ LET s == CreditCard_setOwedBalance(owedBalance, calls[p].newBalance)
           IN  IF s.error # NoError
               THEN /\ error' = s.error
                    /\ calls' = [calls EXCEPT ![p] = Idle]
                    /\ owedBalance' = owedBalance
               ELSE /\ error' = error
                    /\ calls' = [calls EXCEPT ![p].pc = "append"]
                    /\ owedBalance' = s.owedBalance
    /\ Shared
    /\ UNCHANGED transactions

\* this.addTransaction(amount, new Date(), type, description)
AppendRecord ==
    /\ \E p \in Callers, description \in Descriptions :
        /\ calls[p].pc = "append"
        /\ transactions' = addTransaction(transactions, calls[p].amount, now,
                                          calls[p].type, description)
        /\ error' = NoError
        /\ calls' = [calls EXCEPT ![p] = Idle]
    /\ Shared
    /\ UNCHANGED owedBalance

NextConcurrent ==
    \/ Begin
    \/ Validate
    \/ CheckActive
    \/ ReadBalance
    \/ WriteBalance
    \/ AppendRecord
    \/ Tick

InitConcurrent ==
    /\ InitCard
    /\ serialized \in BOOLEAN

SpecConcurrent == InitConcurrent /\ [][NextConcurrent]_vars

----------------------------------------------------------------------------
(* Vocabulary of the properties *)

ChargeTypes == {"withdraw", "purchase", "transfer"}

PayTypes == ChargeTypes \cup {"payment"}

\* What pay(amount, type, description) does in the current state, the record
\* being stamped at `date`
PayNow(amount, type, description, date) ==
    pay(owedBalance, cardStatus, expiryDate, transactions, amount, type,
        description, now, date)

\* txs is `before` with exactly one record added at the end
ExtendsByOne(txs, before) ==
    /\ Len(txs) = Len(before) + 1
    /\ SubSeq(txs, 1, Len(before)) = before

LeqM(a, b) == ~Gt(a, b)

\* What the ledger says is owed: the charges and the interest less the
\* payments
LedgerBalance(txs) ==
    Minus(Plus(Plus(Plus(getTotalAmountByType(txs, "withdraw"),
                         getTotalAmountByType(txs, "purchase")),
                    getTotalAmountByType(txs, "transfer")),
               getTotalAmountByType(txs, "interest")),
          getTotalAmountByType(txs, "payment"))

----------------------------------------------------------------------------
(* C1: a call that throws leaves owedBalance, the card status and the      *)
(* ledger exactly as they were: every step that ends with an error message *)
(* (non-positive amount, insufficient credit, payment above the limit,     *)
(* inactive or expired card, cash-withdraw limit, unsupported type, balance *)
(* setter rejecting the new balance) changes none of them.                 *)
C1_AllOrNothing ==
    [][error' # NoError =>
        UNCHANGED <<owedBalance, cardStatus, expiryDate, transactions>>]_vars

\* a payment was refused by the balance setter after a charge had succeeded
C1_Witness ==
    /\ error = "Owed balance must be positive."
    /\ Len(transactions) = 1
    /\ owedBalance = transactions[1].amount

(* C2: a successful pay(amount, PAYMENT) leaves owedBalance = previous      *)
(* balance - amount, a successful pay(amount, T) with T a WITHDRAW,         *)
(* PURCHASE or TRANSFER leaves previous balance + amount, and either way    *)
(* the ledger is the previous ledger plus one record of that type and       *)
(* amount.                                                                  *)
C2_BalanceDelta ==
    \A amount \in Amounts, type \in TransactionType,
       description \in Descriptions, date \in Later(now) :
        LET r == PayNow(amount, type, description, date)
        IN  r.error = NoError =>
              /\ type \in PayTypes
              /\ r.owedBalance = IF type = "payment"
                                 THEN Minus(owedBalance, amount)
                                 ELSE Plus(owedBalance, amount)
              /\ ExtendsByOne(r.transactions, transactions)
              /\ Last(r.transactions).transactionType = type
              /\ Last(r.transactions).amount = amount

\* a charge of the whole limit followed by a payment of 100
C2_Witness ==
    /\ Len(transactions) = 2
    /\ transactions[1].transactionType \in ChargeTypes
    /\ transactions[2].transactionType = "payment"
    /\ owedBalance = Minus(transactions[1].amount, transactions[2].amount)
    /\ error = NoError

(* C3: on an account whose only history is a successful pay(a, PURCHASE)    *)
(* on the fresh card, 0 < a <= maxCreditLimit, pay(a, PAYMENT) succeeds,    *)
(* the balance becomes 0 and the ledger is PURCHASE then PAYMENT.           *)
C3_FullRepayment ==
    \A a \in Amounts, date \in Later(now) :
        (/\ Gt(a, M(0)) /\ LeqM(a, maxCreditLimit)
         /\ isActiveAndValid(cardStatus, now, expiryDate)
         /\ Len(transactions) = 1
         /\ transactions[1].transactionType = "purchase"
         /\ transactions[1].amount = a
         /\ owedBalance = a)
        => LET r == PayNow(a, "payment", "", date)
           IN  /\ r.error = NoError
               /\ r.owedBalance = M(0)
               /\ Len(r.transactions) = 2
               /\ r.transactions[1].transactionType = "purchase"
               /\ r.transactions[2].transactionType = "payment"

(* C4: on an active, unexpired card a pay(amount, PAYMENT) with             *)
(* owedBalance < amount <= maxCreditLimit succeeds and leaves a negative    *)
(* owedBalance.                                                             *)
C4_OverpaymentAccepted ==
    \A amount \in Amounts, date \in Later(now) :
        (/\ isActiveAndValid(cardStatus, now, expiryDate)
         /\ Gt(amount, owedBalance) /\ LeqM(amount, maxCreditLimit))
        => LET r == PayNow(amount, "payment", "", date)
           IN  /\ r.error = NoError
               /\ r.owedBalance = Minus(owedBalance, amount)
               /\ Gt(M(0), r.owedBalance)

(* C5: through pay alone owedBalance never exceeds maxCreditLimit           *)
(* (availableCredit is never negative), and a WITHDRAW, PURCHASE or         *)
(* TRANSFER of more than the available credit throws "Insufficient          *)
(* available credit.".                                                      *)
C5_CreditLimit ==
    /\ LeqM(owedBalance, maxCreditLimit)
    /\ LeqM(M(0), getAvailableCredit(owedBalance))
    /\ \A amount \in Amounts, type \in ChargeTypes,
          description \in Descriptions, date \in Later(now) :
           Gt(amount, Minus(maxCreditLimit, owedBalance))
           => PayNow(amount, type, description, date).error
                = "Insufficient available credit."

\* the limit is used up and a further charge has been refused
C5_Witness ==
    /\ owedBalance = maxCreditLimit
    /\ Len(transactions) = 1
    /\ transactions[1].transactionType \in ChargeTypes
    /\ error = "Insufficient available credit."

(* C6: while the card status is INACTIVE, BLOCKED or DELETED, or the        *)
(* current instant is at or after the expiry instant, no pay changes        *)
(* owedBalance or the ledger, and a pay whose amount passes the amount and  *)
(* limit checks throws "Card is not active or has expired.".                *)
C6_StatusExpiryGate ==
    (cardStatus \in {"inactive", "blocked", "deleted"} \/ now >= expiryDate)
    => \A amount \in Amounts, type \in TransactionType,
          description \in Descriptions, date \in Later(now) :
           LET r == PayNow(amount, type, description, date)
               passes ==
                   /\ Gt(amount, M(0))
                   /\ type \in ChargeTypes
                        => LeqM(amount, Minus(maxCreditLimit, owedBalance))
                   /\ type = "payment" => LeqM(amount, maxCreditLimit)
           IN  /\ r.owedBalance = owedBalance
               /\ r.transactions = transactions
               /\ r.error # NoError
               /\ passes => r.error = "Card is not active or has expired."

\* a call has been refused on an ACTIVE card at its expiry instant, and one
\* on a card that is not ACTIVE
C6_Witness ==
    /\ error = "Card is not active or has expired."
    /\ \/ cardStatus = "active" /\ now = expiryDate
       \/ cardStatus = "deleted" /\ now < expiryDate

\* The cash-withdraw sub-limit of C7, for a card in a state where `usable`
\* holds
CashSubLimit(usable) ==
    \A amount \in Amounts, description \in Descriptions, date \in Later(now) :
        LET w == PayNow(amount, "withdraw", description, date)
            overCash ==
                /\ Gt(Times(amount, 100),
                      Times(Minus(maxCreditLimit, owedBalance),
                            cashWithdrawLimitPercentage))
                /\ LeqM(amount, Minus(maxCreditLimit, owedBalance))
        IN  /\ w.error = NoError
                => LeqM(Times(amount, 100),
                        Times(Minus(maxCreditLimit, owedBalance),
                              cashWithdrawLimitPercentage))
            /\ (usable /\ overCash)
                => /\ w.error = "Exceeds cash withdraw limit."
                   /\ w.owedBalance = owedBalance
                   /\ w.transactions = transactions
                   /\ \A type \in {"purchase", "transfer"} :
                        LET p == PayNow(amount, type, description, date)
                        IN  /\ p.error = NoError
                            /\ p.owedBalance = Plus(owedBalance, amount)
                            /\ ExtendsByOne(p.transactions, transactions)

(* C7 as stated: every successful pay(amount, WITHDRAW) has                 *)
(* amount <= (maxCreditLimit - owedBalance) * 10 / 100; on a card whose     *)
(* status is ACTIVE a WITHDRAW with cashWithdrawLimit < amount <=           *)
(* availableCredit throws "Exceeds cash withdraw limit." and changes        *)
(* nothing, while a PURCHASE or TRANSFER of that amount succeeds.           *)
C7_CashSubLimitActive == CashSubLimit(cardStatus = "active")

(* C7 as amended: the same, on a card whose status is ACTIVE and whose      *)
(* expiry instant is still ahead.                                           *)
C7_CashSubLimit ==
    CashSubLimit(cardStatus = "active" /\ now < expiryDate)

\* a withdrawal has been refused for the sub-limit with 100 of credit left
C7_Witness ==
    /\ error = "Exceeds cash withdraw limit."
    /\ cardStatus = "active" /\ now < expiryDate
    /\ Len(transactions) = 2
    /\ Minus(maxCreditLimit, owedBalance) = M(100)

(* C8: addInterest(amount, d) with amount > 0 succeeds in every state,      *)
(* whatever the status, the expiry and the limit: it adds amount to         *)
(* owedBalance and appends one INTEREST record; with amount <= 0 it throws  *)
(* "Amount must be positive." and changes nothing.                          *)
C8_AddInterestUngated ==
    \A amount \in InterestAmounts \cup Amounts,
       description \in Descriptions, date \in Later(now) :
        LET r == addInterest(owedBalance, transactions, amount, date,
                             description)
        IN  IF Gt(amount, M(0))
            THEN /\ r.error = NoError
                 /\ r.owedBalance = Plus(owedBalance, amount)
                 /\ ExtendsByOne(r.transactions, transactions)
                 /\ Last(r.transactions).transactionType = "interest"
                 /\ Last(r.transactions).amount = amount
            ELSE /\ r.error = "Amount must be positive."
                 /\ r.owedBalance = owedBalance
                 /\ r.transactions = transactions

\* an INTEREST record was appended on a DELETED, expired card and the balance
\* is above the limit
C8_Witness ==
    /\ Len(transactions) > 0
    /\ Last(transactions).transactionType = "interest"
    /\ Last(transactions).description \in Descriptions
    /\ Last(transactions).transactionDate >= expiryDate
    /\ cardStatus = "deleted"
    /\ Gt(owedBalance, maxCreditLimit)
    /\ error = NoError

(* C9: every step of the processor and the billing cycle leaves the ledger  *)
(* unchanged or adds exactly one record at its end; the records already     *)
(* there keep their position and their fields.                              *)
C9_AppendOnly ==
    [][\/ transactions' = transactions
       \/ ExtendsByOne(transactions', transactions)]_vars

\* a ledger of two records of different types
C9_Witness ==
    /\ Len(transactions) = 2
    /\ transactions[1].transactionType # transactions[2].transactionType
    /\ transactions[1].transactionDate < transactions[2].transactionDate

(* C10: applyInterestIfLate(dueDate) changes nothing when the current       *)
(* instant is at or before dueDate or owedBalance <= 0; otherwise, whatever *)
(* the status and the expiry, it appends one INTEREST record of 1.5% of     *)
(* the owedBalance read at the call and adds that amount to owedBalance.    *)
(* (Stated where 1.5% of the balance is a multiple of 1/Scale.)             *)
C10_ApplyInterestIfLate ==
    \A dueDate \in Dates, date \in Later(now) :
        LET r == applyInterestIfLate(owedBalance, transactions, dueDate,
                                     now, date)
        IN  IF now <= dueDate \/ LeqM(owedBalance, M(0))
            THEN /\ r.error = NoError
                 /\ r.owedBalance = owedBalance
                 /\ r.transactions = transactions
            ELSE Exact(owedBalance, interestRateMonthlyNum,
                       interestRateMonthlyDen * 100)
                 => /\ r.error = NoError
                    /\ ExtendsByOne(r.transactions, transactions)
                    /\ Last(r.transactions).transactionType = "interest"
                    /\ Times(Last(r.transactions).amount,
                             interestRateMonthlyDen * 100)
                         = Times(owedBalance, interestRateMonthlyNum)
                    /\ r.owedBalance
                         = Plus(owedBalance, Last(r.transactions).amount)

\* interest of 1500 was charged on a balance of 100000 on a BLOCKED card
\* after its expiry
C10_Witness ==
    /\ Len(transactions) > 0
    /\ Last(transactions).description = "Monthly interest charge"
    /\ Last(transactions).amount = M(1500)
    /\ Last(transactions).transactionDate >= expiryDate
    /\ owedBalance = M(101500)
    /\ cardStatus = "blocked"

(* C11: two consecutive applyInterestIfLate calls with the same overdue     *)
(* dueDate both accrue: each appends one INTEREST record, the second is     *)
(* 1.5% of the balance already raised by the first, so it is larger than    *)
(* the first and the call is not idempotent (1000 -> 1015 -> 1030.225).     *)
(* (Stated where both amounts are multiples of 1/Scale.)                    *)
C11_InterestCompounds ==
    /\ \A dueDate \in Dates, d1 \in Later(now) : \A d2 \in Later(d1) :
        LET r1 == applyInterestIfLate(owedBalance, transactions, dueDate,
                                      now, d1)
            r2 == applyInterestIfLate(r1.owedBalance, r1.transactions,
                                      dueDate, d1, d2)
            a1 == Last(r1.transactions).amount
            a2 == Last(r2.transactions).amount
        IN  (/\ now > dueDate
             /\ Gt(owedBalance, M(0))
             /\ Exact(owedBalance, interestRateMonthlyNum,
                      interestRateMonthlyDen * 100)
             /\ Exact(r1.owedBalance, interestRateMonthlyNum,
                      interestRateMonthlyDen * 100))
            => /\ r1.error = NoError /\ r2.error = NoError
               /\ ExtendsByOne(r1.transactions, transactions)
               /\ ExtendsByOne(r2.transactions, r1.transactions)
               /\ Last(r1.transactions).transactionType = "interest"
               /\ Last(r2.transactions).transactionType = "interest"
               /\ Times(a2, interestRateMonthlyDen * 100)
                    = Times(r1.owedBalance, interestRateMonthlyNum)
               /\ Gt(a2, a1)
               /\ r2.owedBalance = Plus(Plus(owedBalance, a1), a2)
    /\ LET r1 == applyInterestIfLate(M(1000), <<>>, 0, 1, 1)
           r2 == applyInterestIfLate(r1.owedBalance, r1.transactions, 0, 1, 1)
       IN  /\ r1.owedBalance = M(1015)
           /\ Last(r1.transactions).amount = M(15)
           /\ r2.owedBalance = [w |-> 1030, f |-> (225 * Scale) \div 1000]
           /\ Last(r2.transactions).amount
                = [w |-> 15, f |-> (225 * Scale) \div 1000]

\* 100000 -> 101500 -> 103022.5 by two interest charges in a row
C11_Witness ==
    /\ Len(transactions) = 2
    /\ transactions[1].description = "Monthly interest charge"
    /\ transactions[2].description = "Monthly interest charge"
    /\ transactions[1].amount = M(1500)
    /\ transactions[2].amount = [w |-> 1522, f |-> Scale \div 2]
    /\ owedBalance = [w |-> 103022, f |-> Scale \div 2]

(* C12: generateMonthlyBill(lastBillDate) throws "Last bill date must be    *)
(* in the past." exactly when lastBillDate >= the instant it reads;         *)
(* otherwise it returns totalDue = owedBalance, minPayment = max(5% of      *)
(* totalDue, 0) and dueDate = the instant bound to `now` + 15 days; either  *)
(* way owedBalance, the status and the ledger stay as they were.            *)
(* (minPayment is stated where 5% of the balance is a multiple of 1/Scale.) *)
C12_MonthlyBill ==
    /\ [](\A lastBillDate \in Dates, date \in Later(now) :
            LET r == generateMonthlyBill(owedBalance, lastBillDate, now, date)
            IN  IF lastBillDate >= now
                THEN r.error = "Last bill date must be in the past."
                ELSE /\ r.error = NoError
                     /\ r.totalDue = owedBalance
                     /\ r.dueDate = date + 15 * 24 * 60 * 60 * 1000
                     /\ Exact(owedBalance, 5, 100)
                          => Times(r.minPayment, 100)
                               = Times(MaxOf(owedBalance, M(0)), 5))
    /\ [][\/ UNCHANGED <<owedBalance, cardStatus, transactions>>
          \/ ~GenerateMonthlyBill]_vars

\* a bill was refused for its lastBillDate on a balance of 101500, whose
\* bill is 101500 due with a minimum payment of 5075
C12_Witness ==
    /\ error = "Last bill date must be in the past."
    /\ owedBalance = M(101500)
    /\ now > 0
    /\ generateMonthlyBill(owedBalance, 0, now, now).totalDue = M(101500)
    /\ generateMonthlyBill(owedBalance, 0, now, now).minPayment = M(5075)

(* C13: when the calls of pay on one card are serialized, owedBalance never *)
(* exceeds maxCreditLimit and, whenever no call is in progress, it is the   *)
(* sum of the charges on the ledger less the payments; when the steps of    *)
(* two calls interleave (validation, status check, read of the balance,     *)
(* write of the balance, push of the record) both can pass validation       *)
(* against the same available credit and the balance can pass the limit or  *)
(* miss one of the two amounts.                                             *)
C13_SerializedPay ==
    serialized =>
        /\ LeqM(owedBalance, maxCreditLimit)
        /\ InProgress = {} => owedBalance = LedgerBalance(transactions)

\* two interleaved purchases of the whole limit, both validated against an
\* available credit of 100000, have both been applied
C13_Witness ==
    /\ ~serialized
    /\ InProgress = {}
    /\ Len(transactions) = 2
    /\ \A i \in 1 .. 2 : /\ transactions[i].transactionType = "purchase"
                         /\ transactions[i].amount = maxCreditLimit
    /\ owedBalance = M(200000)
    /\ Gt(owedBalance, maxCreditLimit)

(* C14: new CreditCard(...) throws, and there is no card, exactly when the  *)
(* expiry is not after the current instant, the card number is not 16 long  *)
(* or the cvv is not 3 long; every card it returns has owedBalance 0, the   *)
(* status ACTIVE, an available credit of maxCreditLimit = 100000 and a cash *)
(* withdraw limit of 10000, and the service built on it has an empty ledger *)
(* until a first call succeeds. Nothing ever happens to a card that was not *)
(* constructed.                                                             *)
C14_Construction ==
    /\ [](/\ \A expiry \in ConstructorExpiryDates \cup Dates,
                number \in CardNumbers \cup {""}, code \in Cvvs \cup {""} :
               LET card == CreditCard(expiry, number, code, now)
               IN  /\ card.error = NoError
                        <=> expiry > now /\ Len(number) = 16 /\ Len(code) = 3
                   /\ card.error # NoError => card.error \in ConstructionErrors
                   /\ card.error = NoError =>
                        /\ card.owedBalance = M(0)
                        /\ card.cardStatus = "active"
                        /\ maxCreditLimit = M(100000)
                        /\ getAvailableCredit(card.owedBalance) = maxCreditLimit
                        /\ getCashWithdrawLimit(card.owedBalance) = M(10000)
          /\ Constructed
               <=> expiryDate > 0 /\ Len(cardNumber) = 16 /\ Len(cvv) = 3
          /\ ~Constructed => transactions = <<>>)
    /\ [][/\ ~Constructed =>
               UNCHANGED <<owedBalance, cardStatus, expiryDate, cardNumber,
                           cvv, transactions, error>>
          /\ (Constructed /\ transactions = <<>> /\ transactions' # <<>>) =>
               /\ Len(transactions') = 1
               /\ error' = NoError]_vars

\* a card as the constructor returns it, before any call
C14_Witness ==
    /\ Constructed
    /\ error = NoError
    /\ now = 0
    /\ expiryDate > now /\ Len(cardNumber) = 16 /\ Len(cvv) = 3
    /\ owedBalance = M(0)
    /\ cardStatus = "active"
    /\ transactions = <<>>
    /\ getAvailableCredit(owedBalance) = M(100000)
    /\ getCashWithdrawLimit(owedBalance) = M(10000)

(* C15: setCardStatus(s) succeeds from every status to every status,        *)
(* DELETED to ACTIVE included; a step that changes the status changes       *)
(* neither owedBalance nor the ledger nor the expiry; and once a BLOCKED or *)
(* DELETED card is ACTIVE again, pay on it does what it does on any active  *)
(* card with that balance: before the expiry it never reports an inactive   *)
(* card, and a PURCHASE or TRANSFER within the available credit succeeds.   *)
C15_StatusUnrestricted ==
    [][/\ \A s \in CardStatus : setCardStatus(cardStatus, s) = s
       /\ cardStatus' # cardStatus =>
            /\ error' = NoError
            /\ UNCHANGED <<owedBalance, transactions, expiryDate>>
       /\ (cardStatus \in {"blocked", "deleted"} /\ cardStatus' = "active") =>
            \A amount \in Amounts, type \in TransactionType,
               description \in Descriptions, date \in Later(now') :
                LET r == pay(owedBalance', cardStatus', expiryDate',
                             transactions', amount, type, description,
                             now', date)
                IN  /\ now' < expiryDate' =>
                         r.error # "Card is not active or has expired."
                    /\ ( /\ now' < expiryDate'
                         /\ type \in {"purchase", "transfer"}
                         /\ Gt(amount, M(0))
                         /\ LeqM(amount, Minus(maxCreditLimit, owedBalance')) )
                       => /\ r.error = NoError
                          /\ r.owedBalance = Plus(owedBalance', amount)
                          /\ ExtendsByOne(r.transactions, transactions')
                    /\ ( /\ type \in ChargeTypes
                         /\ Gt(amount, M(0))
                         /\ Gt(amount, Minus(maxCreditLimit, owedBalance')) )
                       => r.error = "Insufficient available credit."]_vars

\* a card with a charge on it was deleted before its expiry: pay refuses a
\* purchase now and accepts it once the status is set back to ACTIVE
C15_Witness ==
    /\ cardStatus = "deleted"
    /\ now < expiryDate
    /\ transactions # <<>>
    /\ Gt(owedBalance, M(0))
    /\ PayNow(M(100), "purchase", "", now).error
         = "Card is not active or has expired."
    /\ pay(owedBalance, setCardStatus(cardStatus, "active"), expiryDate,
           transactions, M(100), "purchase", "", now, now).error = NoError

(* C16: setOwedBalance(amount) throws "Owed balance must be positive." and  *)
(* leaves the balance as it was when amount <= 0; for every amount > 0,     *)
(* above maxCreditLimit included, the balance becomes amount; the service's *)
(* setOwedBalance behaves the same, except that it reports amount <= 0 as   *)
(* "Amount must be positive."; and a step that changes the balance without  *)
(* appending a record leaves the status alone.                              *)
C16_SetOwedBalance ==
    /\ [](\A amount \in {M(n) : n \in {-100, 0, 100, 100000, 150000}} :
            LET r == CreditCard_setOwedBalance(owedBalance, amount)
                s == CreditCardService_setOwedBalance(owedBalance, amount)
            IN  IF LeZero(amount)
                THEN /\ r.error = "Owed balance must be positive."
                     /\ r.owedBalance = owedBalance
                     /\ s.error = "Amount must be positive."
                     /\ s.owedBalance = owedBalance
                ELSE /\ r = [error |-> NoError, owedBalance |-> amount]
                     /\ s = r)
    /\ [][/\ UNCHANGED <<transactions, cardStatus>> \/ ~SetOwedBalance
          /\ (owedBalance' # owedBalance /\ UNCHANGED transactions) =>
               /\ UNCHANGED cardStatus
               /\ error' = NoError
               /\ Gt(owedBalance', M(0))]_vars

\* the balance was set to the whole limit on a card that never had a
\* transaction, and could be set above the limit
C16_Witness ==
    /\ owedBalance = maxCreditLimit
    /\ transactions = <<>>
    /\ error = NoError
    /\ CreditCard_setOwedBalance(owedBalance, M(150000)).owedBalance = M(150000)

(* C17: every record appended by pay (a WITHDRAW, PURCHASE, PAYMENT or      *)
(* TRANSFER record) carries a timestamp strictly before the expiry instant  *)
(* of the card, the instant compared with the expiry being the one stamped  *)
(* on the record, even when the clock advances during the call.             *)
C17_StampBeforeExpiry ==
    \A i \in 1 .. Len(transactions) :
        transactions[i].transactionType \in PayTypes
            => transactions[i].transactionDate < expiryDate

(* C18: pay reports the first failing check in this order: an amount <= 0   *)
(* is "Amount must be positive." whatever the type and the card; else a     *)
(* WITHDRAW, PURCHASE or TRANSFER above the available credit is             *)
(* "Insufficient available credit." and a PAYMENT above maxCreditLimit is   *)
(* "Payment exceeds max credit limit.", even on an inactive or expired      *)
(* card; else an inactive or expired card is "Card is not active or has     *)
(* expired.", for INTEREST and DEPOSIT too; and only on an active,          *)
(* unexpired card are "Exceeds cash withdraw limit." (WITHDRAW) and         *)
(* "Unsupported transaction type." (INTEREST, DEPOSIT) reported.            *)
C18_OrderOfChecks ==
    \A amount \in Amounts \cup {M(-100)}, type \in TransactionType,
       description \in Descriptions, date \in Later(now) :
        LET e == PayNow(amount, type, description, date).error
            available == Minus(M(100000), owedBalance)
            usable == cardStatus = "active" /\ now < expiryDate
        IN  /\ IF ~Gt(amount, M(0))
               THEN e = "Amount must be positive."
               ELSE IF type \in ChargeTypes /\ Gt(amount, available)
               THEN e = "Insufficient available credit."
               ELSE IF type = "payment" /\ Gt(amount, M(100000))
               THEN e = "Payment exceeds max credit limit."
               ELSE IF ~usable
               THEN e = "Card is not active or has expired."
               ELSE IF type = "withdraw" /\ Gt(amount, MulDiv(available, 10, 100))
               THEN e = "Exceeds cash withdraw limit."
               ELSE IF type \in {"interest", "deposit"}
               THEN e = "Unsupported transaction type."
               ELSE e \in {NoError, "Owed balance must be positive."}
            /\ e \in {"Exceeds cash withdraw limit.",
                      "Unsupported transaction type."} => usable

\* a charge above the available credit was refused as such on a blocked
\* card, on which a charge within the credit is refused for the status
C18_Witness ==
    /\ error = "Insufficient available credit."
    /\ cardStatus = "blocked"
    /\ PayNow(M(150000), "purchase", "", now).error
         = "Insufficient available credit."
    /\ PayNow(M(100), "deposit", "", now).error
         = "Card is not active or has expired."

(* C19: the clock never going backwards, the timestamps of the ledger       *)
(* records are non-decreasing in insertion order and none is in the future, *)
(* so getTransactionsSince(t) returns a suffix of the ledger: every record  *)
(* after the first one with a timestamp > t is returned too.                *)
C19_Chronological ==
    /\ \A i, j \in 1 .. Len(transactions) :
        i < j => transactions[i].transactionDate
                    <= transactions[j].transactionDate
    /\ \A i \in 1 .. Len(transactions) : transactions[i].transactionDate <= now
    /\ \A t \in Dates \cup {-1} :
        LET since == getTransactionsSince(transactions, t)
            n == Len(transactions)
        IN  /\ since = SubSeq(transactions, n - Len(since) + 1, n)
            /\ \A i, j \in 1 .. n :
                (i < j /\ transactions[i].transactionDate > t)
                    => transactions[j].transactionDate > t

\* two records stamped at different instants: the records since the first
\* instant are the second record alone
C19_Witness ==
    /\ Len(transactions) = 2
    /\ transactions[1].transactionDate < transactions[2].transactionDate
    /\ getTransactionsSince(transactions, transactions[1].transactionDate)
         = <<transactions[2]>>
    /\ getTransactionsSince(transactions, -1) = transactions

(* C20: in every state reached from a fresh card by pay, addInterest,       *)
(* applyInterestIfLate, payBill, setCardStatus and generateMonthlyBill      *)
(* calls, successful or not, and no setOwedBalance call, owedBalance is the *)
(* sum of the amounts of the WITHDRAW, PURCHASE, TRANSFER and INTEREST      *)
(* records less the sum of the amounts of the PAYMENT records, every record *)
(* has an amount > 0 and no record has the type DEPOSIT.                    *)
C20_BalanceReconciles ==
    /\ owedBalance =
         Minus(Plus(Plus(Plus(getTotalAmountByType(transactions, "withdraw"),
                              getTotalAmountByType(transactions, "purchase")),
                         getTotalAmountByType(transactions, "transfer")),
                    getTotalAmountByType(transactions, "interest")),
               getTotalAmountByType(transactions, "payment"))
    /\ \A i \in 1 .. Len(transactions) :
        /\ Gt(transactions[i].amount, M(0))
        /\ transactions[i].transactionType # "deposit"
    /\ getTransactionsByType(transactions, "deposit") = <<>>

\* a purchase of 100 and the monthly interest of 1.5 on it: 101.5 is owed
C20_Witness ==
    /\ Len(transactions) = 2
    /\ transactions[1].transactionType = "purchase"
    /\ transactions[1].amount = M(100)
    /\ transactions[2].transactionType = "interest"
    /\ transactions[2].amount = [w |-> 1, f |-> Scale \div 2]
    /\ owedBalance = [w |-> 101, f |-> Scale \div 2]

====
